---- MODULE Spec2Model ----
(***************************************************************************)
(* Model of kms.py: a command-line driver that runs the external `tts`     *)
(* tool once per job and relocates each produced file into an output       *)
(* directory under a fresh uuid name.                                      *)
(*                                                                         *)
(* Three specifications:                                                   *)
(*   Spec      main(): start-up checks, generate_mode / train_mode, one    *)
(*             action per loop iteration (a whole process_wav_file job).   *)
(*   SpecText  generate_random_text as a function of the dictionary file   *)
(*             and the requested word count.                               *)
(*   SpecPipe  run_tts_command's Popen / readline / wait against a child   *)
(*             process that writes to two bounded OS pipes.                *)
(*                                                                         *)
(* Scope: shots is a count (range(n) of a negative n is range(0)); the     *)
(* dictionary file, when named, is readable; Popen finds the tool the      *)
(* availability check found; the output directory is not the directory of  *)
(* config.out_path. os.makedirs and os.rename may fail at any call.        *)
(*                                                                         *)
(* Conventions: Optional[str] is a set with at most one element ({} is     *)
(* None); a text is a sequence of one-character strings; a file name is an *)
(* integer (OutPathName is 'tts_output.wav', positive numbers are the      *)
(* names uuid4 yields, taken never to repeat); a speaker file is a         *)
(* positive integer.                                                       *)
(***************************************************************************)
EXTENDS Integers, Sequences, FiniteSets, TLC

\* ---------------------------------------------------------------- bounds
MaxPool == 2          \* most *.wav files in the input directory
MaxShots == 2         \* largest --shots
MaxJobs == 4          \* most single-speaker jobs of a run: pool size * shots
MaxMerge == 3         \* largest --min_merge / --max_merge (smallest is -1)
MaxWordCount == 3     \* largest --word_count (smallest is -1)
MaxRunLines == 2      \* most lines of the dictionary file in Spec
MaxDictLines == 3     \* most lines of the dictionary file in SpecText
MaxWrites == 4        \* most write() calls of the child process in SpecPipe
PipeCapacity == 2     \* write() calls an unread OS pipe absorbs before blocking

\* ------------------------------------------------------------- constants
OutPathName == 0      \* TTSConfig.out_path = 'tts_output.wav'
DefaultWordCount == 15    \* --word_count default
DefaultMinMerge == 2      \* --min_merge default
DefaultMaxMerge == 7      \* --max_merge default

VARIABLES
    \* environment and command line
    tts_installed,      \* `which tts` exits 0
    input_dir,          \* the *.wav files of --input_wav_dir
    args,               \* the parsed argparse.Namespace
    dict_words,         \* file.readlines() of --dict_file
    \* main()
    pc, error, scanned, speaker_wav, config_speaker_wav, w, i,
    \* filesystem
    out_path_exists,    \* os.path.exists(config.out_path)
    outdir,             \* [exists, files]: --output_wav_dir and the files in it
    uuid_next,          \* the next name uuid4 yields
    \* history
    attempts,           \* number of run_tts_command calls made by each kind of job
    samplings,          \* number of generate_random_text calls
    sample,             \* outcome of the last generate_random_text call
    returned,           \* number of jobs whose process_wav_file returned a path
    last,               \* the last job: its run_tts_command call and what became of it
    outdir0,            \* outdir at process start
    \* run_tts_command against the OS pipes (SpecPipe)
    script, proc_pos, proc_state, out_buf, err_buf, inv_pc, exit_code, inv_result

envVars == <<tts_installed, input_dir, args, dict_words>>
mainVars == <<pc, error, scanned, speaker_wav, config_speaker_wav, w, i>>
fsVars == <<out_path_exists, outdir, uuid_next>>
histVars == <<attempts, samplings, sample, returned, last, outdir0>>
pipeVars == <<script, proc_pos, proc_state, out_buf, err_buf, inv_pc, exit_code, inv_result>>
vars == <<envVars, mainVars, fsVars, histVars, pipeVars>>

\* ---------------------------------------------------------------- helpers
Min(a, b) == IF a < b THEN a ELSE b

None == {}

Range(s) == {s[k] : k \in 1..Len(s)}

\* sequences of length n over S
SeqsOfLen(S, n) == [1..n -> S]

\* sequences of length at most n over S
SeqsUpTo(S, n) == UNION {SeqsOfLen(S, k) : k \in 0..n}

\* injective sequences of length k over 1..n: k positions drawn without replacement
InjectiveIndexSeqs(k, n) == {ix \in SeqsOfLen(1..n, k) : \A a, b \in 1..k : a # b => ix[a] # ix[b]}

\* random.shuffle: any order of the files
Shuffles(S) == {s \in SeqsOfLen(S, Cardinality(S)) : Range(s) = S}

\* ------------------------------------------------------------- characters
Whitespace == {" ", "\n"}

\* str.strip() drops leading and trailing whitespace
RECURSIVE LStrip(_)
LStrip(s) == IF s # <<>> /\ Head(s) \in Whitespace THEN LStrip(Tail(s)) ELSE s

RECURSIVE RStrip(_)
RStrip(s) == IF s # <<>> /\ s[Len(s)] \in Whitespace THEN RStrip(SubSeq(s, 1, Len(s) - 1)) ELSE s

\* fault: only leading whitespace is dropped
StripKeepNewline(word) == LStrip(word)

\* line 85: word.strip()
Strip(word) == RStrip(LStrip(word))

\* ' '.join(parts)
RECURSIVE Join(_)
Join(parts) ==
    IF parts = <<>> THEN <<>>
    ELSE IF Len(parts) = 1 THEN parts[1]
    ELSE parts[1] \o <<" ">> \o Join(Tail(parts))

\* ------------------------------------------------------------ random module
\* fault: positions are drawn with replacement
RandomSampleWithReplacement(population, k) ==
    IF k < 0 \/ k > Len(population)
    THEN {[raised |-> TRUE, idx |-> <<>>, value |-> <<>>]}
    ELSE {[raised |-> FALSE, idx |-> ix, value |-> [j \in 1..k |-> population[ix[j]]]] :
            ix \in SeqsOfLen(1..Len(population), k)}

\* random.sample(population, k): raises ValueError when k is negative or larger
\* than the population, else k elements at distinct positions, in sampled order
RandomSample(population, k) ==
    IF k < 0 \/ k > Len(population)
    THEN {[raised |-> TRUE, idx |-> <<>>, value |-> <<>>]}
    ELSE {[raised |-> FALSE, idx |-> ix, value |-> [j \in 1..k |-> population[ix[j]]]] :
            ix \in InjectiveIndexSeqs(k, Len(population))}

\* random.randint(a, b): raises ValueError on an empty range
RandIntRaises(a, b) == a > b

RandInt(a, b) == a..b

\* ----------------------------------------------------- generate_random_text
\* fault: the sample is clamped to the file's size instead of raising
GenerateRandomTextClamped(words, word_count) ==
    {[raised |-> FALSE, idx |-> r.idx, text |-> Join([j \in 1..Len(r.value) |-> Strip(r.value[j])])] :
        r \in RandomSample(words, IF word_count < 0 THEN 0 ELSE Min(word_count, Len(words)))}

\* lines 81-90: the outcomes of one call; raised when random.sample raised
GenerateRandomText(words, word_count) ==
    {[raised |-> r.raised, idx |-> r.idx,
      text |-> Join([j \in 1..Len(r.value) |-> Strip(r.value[j])])] :
        r \in RandomSample(words, word_count)}

\* --------------------------------------------------------- run_tts_command
ExitCodes == {0, 1}

\* fault: the return code is ignored
RunTtsCommandIgnoringExit(return_code) == {OutPathName}

\* lines 57-63: None on a nonzero exit, config.out_path otherwise
RunTtsCommand(return_code) == IF return_code # 0 THEN None ELSE {OutPathName}

\* -------------------------------------------------------- move_output_file
\* fault: the uuid is dropped and every file gets the same name
NewFilenameFixed(uuid) == OutPathName + 1

\* line 69: f"{uuid.uuid4()}.wav"
NewFilename(uuid) == uuid

\* os.rename(src, dst) into the directory, a set of file names: a dst that exists
\* is replaced by the moved file
Rename(files, new_filename) == files \cup {new_filename}

\* fault: the error is logged and swallowed
MoveExceptSwallowed(dir, src_exists, uuid) ==
    [fs_error |-> TRUE, raised |-> FALSE, value |-> None, dir |-> dir, out_exists |-> src_exists, uuid |-> uuid]

\* lines 77-79: the error is logged and re-raised
MoveExcept(dir, src_exists, uuid) ==
    [fs_error |-> TRUE, raised |-> TRUE, value |-> None, dir |-> dir, out_exists |-> src_exists, uuid |-> uuid]

\* lines 65-79. mk_ok / mv_ok: whether os.makedirs / os.rename succeed; fs_error
\* records that one of them failed, raised that the exception left the function
MoveOutputFile(src_exists, dir, uuid, mk_ok, mv_ok) ==
    IF ~dir.exists /\ ~mk_ok THEN MoveExcept(dir, src_exists, uuid)
    ELSE LET made == [dir EXCEPT !.exists = TRUE]
         IN  IF src_exists
             THEN IF ~mv_ok THEN MoveExcept(made, src_exists, uuid + 1)
                  ELSE [fs_error |-> FALSE, raised |-> FALSE, value |-> {NewFilename(uuid)},
                        dir |-> [made EXCEPT !.files = Rename(@, NewFilename(uuid))],
                        out_exists |-> FALSE, uuid |-> uuid + 1]
             ELSE [fs_error |-> FALSE, raised |-> FALSE, value |-> None, dir |-> made,
                   out_exists |-> FALSE, uuid |-> uuid]

\* --------------------------------------------------------- process_wav_file
\* lines 92-95. wrote: whether the tool left a file at config.out_path
ProcessWavFile(return_code, wrote, src_existed, dir, uuid, mk_ok, mv_ok) ==
    LET output_path == RunTtsCommand(return_code)
        src_exists == src_existed \/ wrote
    IN  IF output_path # None
        THEN MoveOutputFile(src_exists, dir, uuid, mk_ok, mv_ok)
        ELSE [fs_error |-> FALSE, raised |-> FALSE, value |-> None, dir |-> dir,
              out_exists |-> src_exists, uuid |-> uuid]

\* ------------------------------------------------------------ mode drivers
\* lines 100, 114: config.speaker_wav = [wav_file]
SingleSpeakerRef(wav_file) == <<wav_file>>

\* fault: the sample size is not capped at the pool size
MergeSampleSizeUncapped(num_files, pool_size) == num_files

\* line 106: min(num_files, len(speaker_wav))
MergeSampleSize(num_files, pool_size) == Min(num_files, pool_size)

\* fault: the inner loop runs one time too many
AdvanceExtraShot(wi, shot, shots, pool_size) ==
    IF shot < shots THEN [w |-> wi, i |-> shot + 1, over |-> FALSE]
    ELSE IF wi < pool_size THEN [w |-> wi + 1, i |-> 0, over |-> FALSE]
    ELSE [w |-> wi, i |-> 0, over |-> TRUE]

\* lines 98/101 and 113/115: the position after job (wi, shot) of
\* `for wav_file in speaker_wav: for i in range(shots)`
Advance(wi, shot, shots, pool_size) ==
    IF shot + 1 < shots THEN [w |-> wi, i |-> shot + 1, over |-> FALSE]
    ELSE IF wi < pool_size THEN [w |-> wi + 1, i |-> 0, over |-> FALSE]
    ELSE [w |-> wi, i |-> 0, over |-> TRUE]

\* ------------------------------------------------------------------- main
\* fault: the availability check always passes
CheckTtsCommandExistsAlways(installed) == TRUE

\* lines 28-35: True iff `which tts` exits 0
CheckTtsCommandExists(installed) == installed

\* the value of an Optional[str] argument that is not None
ValueOf(opt) == CHOOSE t \in opt : TRUE

\* `not x` of an Optional[str] argument: None and "" are both falsy
Falsy(opt) == opt = None \/ opt = {<<>>}

\* line 141: `if not speaker_wav: raise ValueError`
PoolRejected(pool) == pool = <<>>

\* ------------------------------------------------------------ initial state
FixedText == <<"a", " ", "b">>
DictPath == <<"d">>
WordList == <<<<"a", "\n">>, <<"b", "\n">>, <<"a", "b", "\n">>, <<"b", "a", "\n">>>>
RunDicts == {SubSeq(WordList, 1, n) : n \in 0..MaxRunLines}
Pools == {1..n : n \in 0..MaxPool}

\* an output directory that is missing, empty, or holds a file of an earlier run
OldFile == 0 - 1
OutDirs == {[exists |-> FALSE, files |-> {}], [exists |-> TRUE, files |-> {}],
            [exists |-> TRUE, files |-> {OldFile}]}

GenerateArgs ==
    [mode : {"generate"}, text : {None, {<<>>}, {FixedText}}, dict_file : {None},
     shots : 0..MaxShots, word_count : {DefaultWordCount},
     min_merge : (0 - 1)..MaxMerge, max_merge : (0 - 1)..MaxMerge]

TrainArgs ==
    [mode : {"train"}, text : {None}, dict_file : {None, {<<>>}, {DictPath}},
     shots : 0..MaxShots, word_count : ((0 - 1)..MaxWordCount) \cup {DefaultWordCount},
     min_merge : {DefaultMinMerge}, max_merge : {DefaultMaxMerge}]

NoJob == [job |-> 0, kind |-> "none", speaker_wav |-> <<>>, text |-> <<>>, sample_no |-> 0,
          return_code |-> 0, src_exists |-> FALSE, result |-> None, fs_error |-> FALSE,
          raised |-> FALSE, files_before |-> {}]

NoAttempts == [single |-> 0, merged |-> 0, train |-> 0]

Total(n) == n.single + n.merged + n.train

NoSample == [raised |-> FALSE, idx |-> <<>>, text |-> <<>>]

PipeIdle ==
    /\ script = <<>> /\ proc_pos = 0 /\ proc_state = "none" /\ out_buf = 0 /\ err_buf = 0
    /\ inv_pc = "none" /\ exit_code = 0 /\ inv_result = None

MainIdle ==
    /\ scanned = FALSE /\ speaker_wav = <<>> /\ config_speaker_wav = None
    /\ w = 0 /\ i = 0 /\ error = "none"
    /\ attempts = NoAttempts /\ samplings = 0 /\ sample = NoSample /\ returned = 0 /\ last = NoJob
    /\ uuid_next = 1

Init ==
    /\ tts_installed \in BOOLEAN
    /\ input_dir \in Pools
    /\ args \in GenerateArgs \cup TrainArgs
    /\ Cardinality(input_dir) * args.shots <= MaxJobs
    /\ dict_words \in RunDicts
    /\ (args.mode = "generate" \/ Falsy(args.dict_file)) => dict_words = <<>>
    /\ (args.mode = "train" /\ Falsy(args.dict_file)) => args.word_count = DefaultWordCount
    /\ out_path_exists \in BOOLEAN
    /\ outdir \in OutDirs
    /\ outdir0 = outdir
    /\ pc = "start"
    /\ MainIdle
    /\ PipeIdle

\* ------------------------------------------------------------------ actions
Raise(what) ==
    /\ pc' = "crashed"
    /\ error' = what

\* line 122: the availability check
CheckTts ==
    /\ pc = "start"
    /\ IF CheckTtsCommandExists(tts_installed)
       THEN pc' = "scan" /\ error' = error
       ELSE Raise("tts_missing")
    /\ UNCHANGED <<envVars, scanned, speaker_wav, config_speaker_wav, w, i, fsVars, histVars, pipeVars>>

\* lines 139-141: parse_args, get_speaker_wav and the empty-pool check
GetSpeakerWav ==
    /\ pc = "scan"
    /\ \E wav_files \in Shuffles(input_dir) :
        /\ speaker_wav' = wav_files
        /\ scanned' = TRUE
        /\ IF PoolRejected(wav_files)
           THEN Raise("no_wav_files")
           ELSE pc' = "dispatch" /\ error' = error
    /\ UNCHANGED <<envVars, config_speaker_wav, w, i, fsVars, histVars, pipeVars>>

\* lines 143-148: the mode's argument check and the entry into its driver. With
\* shots = 0 the driver's loops assign config.speaker_wav and run no job.
Dispatch ==
    /\ pc = "dispatch"
    /\ IF args.mode = "generate" /\ Falsy(args.text) THEN
            Raise("no_text") /\ UNCHANGED <<config_speaker_wav, w, i>>
       ELSE IF args.mode = "train" /\ Falsy(args.dict_file) THEN
            Raise("no_dict_file") /\ UNCHANGED <<config_speaker_wav, w, i>>
       ELSE IF args.shots = 0 THEN
            /\ pc' = "done" /\ error' = error
            /\ config_speaker_wav' = {SingleSpeakerRef(speaker_wav[Len(speaker_wav)])}
            /\ w' = Len(speaker_wav) /\ i' = 0
       ELSE /\ pc' = (IF args.mode = "generate" THEN "gen_single" ELSE "train")
            /\ error' = error
            /\ config_speaker_wav' = {SingleSpeakerRef(speaker_wav[1])}
            /\ w' = 1 /\ i' = 0
    /\ UNCHANGED <<envVars, scanned, speaker_wav, fsVars, histVars, pipeVars>>

\* one process_wav_file(config, text, output_wav_dir) call with config.speaker_wav =
\* spk, followed by the driver's move to position `next` (phase `npc` when the loop
\* is over); an exception of move_output_file ends the run instead
Job(spk, text, kind, sample_no, next, npc) ==
    \E return_code \in ExitCodes, wrote \in BOOLEAN, mk_ok \in BOOLEAN, mv_ok \in BOOLEAN :
        \* an outcome the job never asks for is not varied
        /\ wrote \/ ~out_path_exists
        /\ mk_ok \/ (return_code = 0 /\ ~outdir.exists)
        /\ mv_ok \/ (return_code = 0 /\ (out_path_exists \/ wrote) /\ (outdir.exists \/ mk_ok))
        /\ LET r == ProcessWavFile(return_code, wrote, out_path_exists, outdir, uuid_next,
                                   mk_ok, mv_ok)
           IN  /\ config_speaker_wav' = {spk}
               /\ attempts' = [attempts EXCEPT ![kind] = @ + 1]
               /\ out_path_exists' = r.out_exists
               /\ outdir' = r.dir
               /\ uuid_next' = r.uuid
               /\ returned' = returned + (IF r.value # None THEN 1 ELSE 0)
               /\ last' = [job |-> Total(attempts) + 1, kind |-> kind, speaker_wav |-> spk,
                           text |-> text, sample_no |-> sample_no, return_code |-> return_code,
                           src_exists |-> (out_path_exists \/ wrote), result |-> r.value,
                           fs_error |-> r.fs_error, raised |-> r.raised,
                           files_before |-> outdir.files]
               /\ IF r.raised
                  THEN Raise("move_error") /\ UNCHANGED <<w, i>>
                  ELSE /\ pc' = (IF next.over THEN npc ELSE pc)
                       /\ error' = error
                       /\ w' = next.w /\ i' = next.i

\* lines 98-103: one iteration of the single-speaker loops of generate_mode
GenSingleJob ==
    /\ pc = "gen_single"
    /\ Job(SingleSpeakerRef(speaker_wav[w]), ValueOf(args.text), "single", 0,
           Advance(w, i, args.shots, Len(speaker_wav)), "gen_merged")
    /\ UNCHANGED <<envVars, scanned, speaker_wav, samplings, sample, outdir0, pipeVars>>

\* lines 104-110: one iteration of the merged-voice loop of generate_mode
GenMergedJob ==
    /\ pc = "gen_merged"
    /\ IF RandIntRaises(args.min_merge, args.max_merge) THEN
            /\ Raise("randint_error")
            /\ UNCHANGED <<config_speaker_wav, w, i, fsVars, attempts, returned, last>>
       ELSE \E size \in {MergeSampleSize(num_files, Len(speaker_wav)) :
                            num_files \in RandInt(args.min_merge, args.max_merge)} :
            \E sel \in RandomSample(speaker_wav, size) :
                IF sel.raised THEN
                    /\ Raise("sample_error")
                    /\ UNCHANGED <<config_speaker_wav, w, i, fsVars, attempts, returned, last>>
                ELSE Job(sel.value, ValueOf(args.text), "merged", 0,
                         [w |-> w, i |-> i + 1, over |-> ~(i + 1 < args.shots)], "done")
    /\ UNCHANGED <<envVars, scanned, speaker_wav, samplings, sample, outdir0, pipeVars>>

\* lines 113-118: one iteration of the loops of train_mode
TrainJob ==
    /\ pc = "train"
    /\ samplings' = samplings + 1
    /\ \E text_input \in GenerateRandomText(dict_words, args.word_count) :
        /\ sample' = text_input
        /\ IF text_input.raised THEN
                /\ Raise("text_error")
                /\ config_speaker_wav' = {SingleSpeakerRef(speaker_wav[w])}
                /\ UNCHANGED <<w, i, fsVars, attempts, returned, last>>
           ELSE Job(SingleSpeakerRef(speaker_wav[w]), text_input.text, "train", samplings + 1,
                    Advance(w, i, args.shots, Len(speaker_wav)), "done")
    /\ UNCHANGED <<envVars, scanned, speaker_wav, outdir0, pipeVars>>

Next == CheckTts \/ GetSpeakerWav \/ Dispatch \/ GenSingleJob \/ GenMergedJob \/ TrainJob

Spec == Init /\ [][Next]_vars

\* ---------------------------------------- SpecText: generate_random_text alone
\* the lines a dictionary file is made of: one word each, with the padding and
\* the line ends readlines() keeps (the last line may lack its newline)
DictLines == {<<"a", "\n">>, <<"b", "\n">>, <<"a", "b", "\n">>, <<" ", "b", " ", "\n">>, <<"a">>}

\* file.readlines(): every line but the last ends with a newline
ReadLines ==
    {d \in SeqsUpTo(DictLines, MaxDictLines) : \A k \in 1..(Len(d) - 1) : d[k][Len(d[k])] = "\n"}

InitText ==
    /\ tts_installed = TRUE
    /\ input_dir = {}
    /\ args \in [mode : {"train"}, text : {None}, dict_file : {{DictPath}}, shots : {1},
                 word_count : (0 - 1)..MaxWordCount,
                 min_merge : {DefaultMinMerge}, max_merge : {DefaultMaxMerge}]
    /\ dict_words \in ReadLines
    /\ out_path_exists = FALSE
    /\ outdir = [exists |-> FALSE, files |-> {}]
    /\ outdir0 = outdir
    /\ pc = "text_call"
    /\ MainIdle
    /\ PipeIdle

\* lines 81-90: one call generate_random_text(args.dict_file, args.word_count)
GenerateRandomTextCall ==
    /\ pc = "text_call"
    /\ samplings' = samplings + 1
    /\ \E text_input \in GenerateRandomText(dict_words, args.word_count) :
        /\ sample' = text_input
        /\ IF text_input.raised THEN Raise("text_error")
           ELSE pc' = "text_done" /\ error' = error
    /\ UNCHANGED <<envVars, scanned, speaker_wav, config_speaker_wav, w, i, fsVars,
                   attempts, returned, last, outdir0, pipeVars>>

NextText == GenerateRandomTextCall

SpecText == InitText /\ [][NextText]_vars

\* --------------------------------- SpecPipe: run_tts_command and the OS pipes
\* The child is a script of write() calls, each of one line, to its stdout
\* ("out") or its stderr ("err"); a write to a pipe that already holds
\* PipeCapacity unread lines blocks until the reader takes one.
InitPipe ==
    /\ tts_installed = TRUE
    /\ input_dir = {}
    /\ args \in [mode : {"generate"}, text : {{FixedText}}, dict_file : {None}, shots : {1},
                 word_count : {DefaultWordCount},
                 min_merge : {DefaultMinMerge}, max_merge : {DefaultMaxMerge}]
    /\ dict_words = <<>>
    /\ out_path_exists = FALSE
    /\ outdir = [exists |-> FALSE, files |-> {}]
    /\ outdir0 = outdir
    /\ pc = "run_tts_command"
    /\ MainIdle
    \* line 53: Popen(command, stdout=PIPE, stderr=PIPE)
    /\ script \in SeqsUpTo({"out", "err"}, MaxWrites)
    /\ exit_code \in ExitCodes
    /\ proc_pos = 0 /\ proc_state = "running" /\ out_buf = 0 /\ err_buf = 0
    /\ inv_pc = "readline" /\ inv_result = None

mainAll == <<envVars, mainVars, fsVars, histVars>>

\* the child's next write(), when its pipe has room
ChildWrite ==
    /\ proc_state = "running"
    /\ proc_pos < Len(script)
    /\ IF script[proc_pos + 1] = "out"
       THEN out_buf < PipeCapacity /\ out_buf' = out_buf + 1 /\ err_buf' = err_buf
       ELSE err_buf < PipeCapacity /\ err_buf' = err_buf + 1 /\ out_buf' = out_buf
    /\ proc_pos' = proc_pos + 1
    /\ UNCHANGED <<mainAll, script, proc_state, inv_pc, exit_code, inv_result>>

\* the child exits after its last write; its ends of the pipes close
ChildExit ==
    /\ proc_state = "running"
    /\ proc_pos = Len(script)
    /\ proc_state' = "exited"
    /\ UNCHANGED <<mainAll, script, proc_pos, out_buf, err_buf, inv_pc, exit_code, inv_result>>

\* lines 54-56: process.stdout.readline() yields a line, or "" at end of file
\* (the loop ends and stdout is closed); it blocks while stdout is empty and open
InvokerReadline ==
    /\ inv_pc = "readline"
    /\ IF out_buf > 0 THEN out_buf' = out_buf - 1 /\ inv_pc' = inv_pc
       ELSE proc_state = "exited" /\ out_buf' = out_buf /\ inv_pc' = "wait"
    /\ UNCHANGED <<mainAll, script, proc_pos, proc_state, err_buf, exit_code, inv_result>>

\* lines 57-63: process.wait() and the result
InvokerWait ==
    /\ inv_pc = "wait"
    /\ proc_state = "exited"
    /\ inv_pc' = "returned"
    /\ inv_result' = RunTtsCommand(exit_code)
    /\ UNCHANGED <<mainAll, script, proc_pos, proc_state, out_buf, err_buf, exit_code>>

NextPipe == ChildWrite \/ ChildExit \/ InvokerReadline \/ InvokerWait

SpecPipe == InitPipe /\ [][NextPipe]_vars

\* ================================================================== claims
PoolSize == Len(speaker_wav)
Terminal == pc \in {"done", "crashed"}
StartupErrors == {"tts_missing", "no_wav_files", "no_text", "no_dict_file"}

\* the driver of the mode was entered (every start-up check passed)
GenerateEntered ==
    /\ args.mode = "generate" /\ scanned /\ speaker_wav # <<>> /\ ~Falsy(args.text)
    /\ pc \notin {"start", "scan", "dispatch"}

TrainEntered ==
    /\ args.mode = "train" /\ scanned /\ speaker_wav # <<>> /\ ~Falsy(args.dict_file)
    /\ pc \notin {"start", "scan", "dispatch"}

\* the pool file whose turn the k-th single-speaker job is: shots consecutive jobs per file
FileOfJob(k) == speaker_wav[((k - 1) \div args.shots) + 1]

\* every attempt, when it is made, is the next one of: shots single-speaker jobs per
\* pool file, in pool order, each with that file alone and the fixed text; only then
\* merged-voice jobs, with the fixed text
GenerateOrder ==
    /\ attempts.train = 0
    /\ attempts.single <= PoolSize * args.shots
    /\ attempts.merged <= args.shots
    /\ attempts.merged > 0 => attempts.single = PoolSize * args.shots
    /\ last.job = Total(attempts)
    /\ last.kind = "single" =>
        /\ attempts.merged = 0
        /\ last.speaker_wav = <<FileOfJob(last.job)>>
        /\ {last.text} = args.text
    /\ last.kind = "merged" => (attempts.merged > 0 /\ {last.text} = args.text)
    /\ last.kind \in {"single", "merged"} \/ Total(attempts) = 0

GenerateComplete ==
    /\ attempts.single = PoolSize * args.shots
    /\ attempts.merged = args.shots
    /\ Total(attempts) = (PoolSize + 1) * args.shots

\* C1 as stated: in generate mode, whenever no relocation raised, the finished run
\* made P*S single-speaker attempts (S per pool file, in pool order) and then S
\* merged-voice attempts, (P+1)*S in all
C1_GenerateCountAnyMergeBounds ==
    (GenerateEntered /\ Terminal /\ error # "move_error") => (GenerateOrder /\ GenerateComplete)

\* C1 (amended): the attempts of generate mode always follow the order single-speaker
\* jobs (S per pool file, in pool order, that file alone, the fixed text) then
\* merged-voice jobs; and when 0 <= min_merge <= max_merge and no relocation raised,
\* the finished run made exactly P*S single-speaker and then S merged-voice attempts
C1_GenerateCount ==
    GenerateEntered =>
        /\ GenerateOrder
        /\ (Terminal /\ error # "move_error" /\ 0 <= args.min_merge
                /\ args.min_merge <= args.max_merge) => GenerateComplete

C1_Witness ==
    /\ GenerateEntered /\ pc = "done" /\ PoolSize = 2 /\ args.shots = 2
    /\ attempts.single = 4 /\ attempts.merged = 2 /\ last.kind = "merged"

Distinct(s) == \A a, b \in 1..Len(s) : a # b => s[a] # s[b]

\* C2 as stated: every merged-voice job's speaker list is made of distinct pool files
\* and its size s satisfies min_merge <= s <= min(max_merge, P)
C2_MergedSizeAtLeastMinMerge ==
    last.kind = "merged" =>
        /\ Distinct(last.speaker_wav)
        /\ Range(last.speaker_wav) \subseteq input_dir
        /\ args.min_merge <= Len(last.speaker_wav)
        /\ Len(last.speaker_wav) <= Min(args.max_merge, PoolSize)

\* C2 (amended): every merged-voice job's speaker list is made of distinct pool files
\* and its size s satisfies min(min_merge, P) <= s <= min(max_merge, P): the lower
\* bound is capped at the pool size too
C2_MergedSize ==
    last.kind = "merged" =>
        /\ config_speaker_wav = {last.speaker_wav}
        /\ Distinct(last.speaker_wav)
        /\ Range(last.speaker_wav) \subseteq input_dir
        /\ Min(args.min_merge, PoolSize) <= Len(last.speaker_wav)
        /\ Len(last.speaker_wav) <= Min(args.max_merge, PoolSize)

C2_Witness ==
    /\ last.kind = "merged" /\ PoolSize = 1 /\ args.min_merge = DefaultMinMerge
    /\ Len(last.speaker_wav) = 1

\* every attempt of train mode, when it is made, uses the pool file whose turn it is,
\* alone, and the text of a sampling made for that attempt only
TrainOrder ==
    /\ attempts.single = 0 /\ attempts.merged = 0
    /\ attempts.train <= PoolSize * args.shots
    /\ last.job = attempts.train
    /\ samplings \in {attempts.train, attempts.train + 1}
    /\ samplings = attempts.train + 1 => (pc = "crashed" /\ error = "text_error")
    /\ attempts.train > 0 =>
        /\ last.kind = "train"
        /\ last.speaker_wav = <<FileOfJob(last.job)>>
        /\ last.sample_no = last.job
        /\ samplings = attempts.train => (~sample.raised /\ last.text = sample.text)

TrainComplete ==
    /\ attempts.train = PoolSize * args.shots
    /\ samplings = PoolSize * args.shots

\* C3 as stated: in train mode with word_count not larger than the dictionary size,
\* whenever no relocation raised, the finished run made P*S attempts, each preceded by
\* its own text sampling and with its single pool file as the only speaker
C3_TrainCountAnyWordCount ==
    (TrainEntered /\ Terminal /\ error # "move_error" /\ args.word_count <= Len(dict_words))
        => (TrainOrder /\ TrainComplete)

\* C3 (amended): the attempts of train mode always use the pool file whose turn it is,
\* alone, each with the text of its own sampling; and when
\* 0 <= word_count <= dictionary size and no relocation raised, the finished run made
\* exactly P*S attempts and P*S samplings
C3_TrainCount ==
    TrainEntered =>
        /\ TrainOrder
        /\ (Terminal /\ error # "move_error" /\ 0 <= args.word_count
                /\ args.word_count <= Len(dict_words)) => TrainComplete

C3_Witness ==
    /\ TrainEntered /\ pc = "done" /\ PoolSize = 2 /\ args.shots = 2 /\ attempts.train = 4
    /\ args.word_count = 1 /\ dict_words = <<<<"a", "\n">>, <<"b", "\n">>>>
    /\ last.text = <<"b">> /\ samplings = 4

\* the last job was a recoverable failure: a nonzero exit, or a zero exit with no
\* file at the output path
JobFailed(j) == j.return_code # 0 \/ (j.return_code = 0 /\ ~j.src_exists)

\* a step that runs one job
JobStep == last'.job = last.job + 1

\* after the job the driver stands where it stands after any finished job
Continues ==
    /\ pc' # "crashed"
    /\ error' = error
    /\ Total(attempts') = Total(attempts) + 1
    /\ IF pc = "gen_merged"
       THEN i' = i + 1 /\ pc' = (IF i + 1 < args.shots THEN "gen_merged" ELSE "done")
       ELSE LET next == Advance(w, i, args.shots, PoolSize)
            IN  IF next.over THEN pc' = (IF pc = "gen_single" THEN "gen_merged" ELSE "done")
                ELSE pc' = pc /\ w' = next.w /\ i' = next.i

\* C4 as stated: a job whose tool exits nonzero, or exits zero without the output
\* file, yields None, moves no file into the output directory and does not end the run
C4_FailedJobNeverAborts ==
    [][(JobStep /\ JobFailed(last')) =>
            (last'.result = None /\ outdir'.files = outdir.files /\ Continues)]_vars

\* C4 (amended): the same, unless the relocation step of a zero-exit job hit a
\* filesystem error (creating the missing output directory failed), which is fatal
C4_FailedJobContinues ==
    [][(JobStep /\ JobFailed(last') /\ ~last'.fs_error) =>
            (last'.result = None /\ outdir'.files = outdir.files /\ Continues)]_vars

C4_Witness ==
    /\ last.job = 1 /\ last.return_code # 0 /\ last.src_exists /\ pc # "crashed"
    /\ outdir.files = outdir0.files /\ args.shots = 2

\* C5: a failed availability check ends the run before the directory scan, before any
\* attempt and with the output directory untouched; an empty pool or a missing mode
\* argument ends it with an error before any attempt or relocation
NothingDone == attempts = NoAttempts /\ last = NoJob /\ returned = 0 /\ outdir = outdir0 /\ samplings = 0

C5_FatalStartup ==
    /\ (~tts_installed /\ pc # "start") =>
            (pc = "crashed" /\ error = "tts_missing" /\ ~scanned /\ speaker_wav = <<>>
                /\ NothingDone)
    /\ (input_dir = {} /\ pc \notin {"start", "scan"}) =>
            (pc = "crashed" /\ error \in {"tts_missing", "no_wav_files"} /\ NothingDone)
    /\ (((args.mode = "generate" /\ Falsy(args.text))
            \/ (args.mode = "train" /\ Falsy(args.dict_file)))
        /\ pc \notin {"start", "scan", "dispatch"}) =>
            (pc = "crashed" /\ error \in StartupErrors /\ NothingDone)

C5_Witness ==
    /\ pc = "crashed" /\ error = "no_dict_file" /\ scanned /\ speaker_wav # <<>>
    /\ args.dict_file = {<<>>}

\* C6 as stated: in train mode with word_count larger than the dictionary, the run
\* fails with an error and makes no attempt, for every pool size and shots value
C6_TooManyWordsAlwaysFails ==
    (args.mode = "train" /\ args.word_count > Len(dict_words)) =>
        (attempts = NoAttempts /\ pc # "done")

\* C6 (amended): in train mode with word_count larger than the dictionary, the run
\* makes no attempt for every pool size and shots value, and it fails with an error
\* whenever shots >= 1 (with shots = 0 no text is sampled and the run ends normally)
C6_TooManyWords ==
    (args.mode = "train" /\ args.word_count > Len(dict_words)) =>
        /\ attempts = NoAttempts /\ last = NoJob /\ outdir = outdir0
        /\ pc = "done" => args.shots = 0
        /\ (TrainEntered /\ pc = "crashed") => (error = "text_error" /\ samplings = 1)

C6_Witness ==
    /\ TrainEntered /\ pc = "crashed" /\ error = "text_error"
    /\ args.word_count > Len(dict_words) /\ Len(dict_words) = 2

\* C7: every job that returned a path added exactly one file to the output directory,
\* under a name that is neither the output path's name nor the name of any file already
\* there, and left no file at the output path; the files added number the jobs that
\* returned a path, and no file already in the directory is replaced
C7_OneFreshFilePerReturnedJob ==
    /\ Cardinality(outdir.files \ outdir0.files) = returned
    /\ outdir0.files \subseteq outdir.files
    /\ OutPathName \notin outdir.files
    /\ last.result # None =>
        /\ outdir.exists
        /\ Cardinality(last.result) = 1
        /\ outdir.files = last.files_before \cup last.result
        /\ last.result \cap last.files_before = {}
        /\ OutPathName \notin last.result
        /\ ~out_path_exists
    /\ (last.job > 0 /\ last.result = None) => outdir.files = last.files_before

C7_Witness == returned = 2 /\ last.result # None /\ outdir0.files # {} /\ Total(attempts) = 3

\* C8: a filesystem error during relocation ends the run: the job that hit it is the
\* last attempt, the run is terminated with that error, and the job returned nothing
C8_MoveErrorIsFatal ==
    /\ last.fs_error =>
        /\ pc = "crashed" /\ error = "move_error"
        /\ last.job = Total(attempts)
        /\ last.raised /\ last.result = None
    /\ error = "move_error" => last.fs_error

C8_Witness ==
    /\ last.fs_error /\ last.job = 1 /\ PoolSize = 2 /\ args.shots = 2 /\ pc = "crashed"
    /\ outdir.exists /\ ~outdir0.exists

\* text.split(" "): the pieces between single spaces (an empty text has no token)
RECURSIVE Split(_, _)
Split(s, acc) ==
    IF s = <<>> THEN <<acc>>
    ELSE IF Head(s) = " " THEN <<acc>> \o Split(Tail(s), <<>>)
    ELSE Split(Tail(s), Append(acc, Head(s)))

TokensOf(text) == IF text = <<>> THEN <<>> ELSE Split(text, <<>>)

NotWhitespace(c) == c \notin Whitespace

\* the word written on a line of the dictionary file
WordOnLine(line) == SelectSeq(line, NotWhitespace)

FileWords == {WordOnLine(dict_words[k]) : k \in 1..Len(dict_words)}

InRange == 0 <= args.word_count /\ args.word_count <= Len(dict_words)

\* the text is word_count file words joined by single spaces, in sampled order
SampledText(tokens) ==
    /\ Len(tokens) = args.word_count
    /\ Len(sample.idx) = args.word_count
    /\ \A j \in 1..Len(tokens) :
        /\ tokens[j] \in FileWords
        /\ sample.idx[j] \in 1..Len(dict_words)
        /\ tokens[j] = WordOnLine(dict_words[sample.idx[j]])

\* C9 as stated: for 0 <= N <= W generate_random_text returns exactly N tokens joined
\* by single spaces, each a word of the file, in sampled order, no token repeated
C9_SampledTextNoTokenRepeated ==
    (pc # "text_call" /\ InRange) =>
        /\ pc = "text_done" /\ ~sample.raised
        /\ SampledText(TokensOf(sample.text))
        /\ Distinct(TokensOf(sample.text))

\* C9 (amended): for 0 <= N <= W generate_random_text returns exactly N tokens joined by
\* single spaces, each a word of the file, in sampled order, and no line of the file is
\* used twice: tokens repeat only where the file itself repeats a word
C9_SampledText ==
    (pc # "text_call" /\ InRange) =>
        /\ pc = "text_done" /\ ~sample.raised
        /\ SampledText(TokensOf(sample.text))
        /\ Distinct(sample.idx)
        /\ Cardinality(FileWords) = Len(dict_words) => Distinct(TokensOf(sample.text))

C9_Witness ==
    /\ pc = "text_done" /\ args.word_count = 3
    /\ TokensOf(sample.text) = <<<<"b">>, <<"a", "b">>, <<"b">>>>

\* the child waits for room in its stderr pipe while the invoker waits for stdout
PipeDeadlock ==
    /\ inv_pc = "readline" /\ out_buf = 0
    /\ proc_state = "running" /\ proc_pos < Len(script)
    /\ script[proc_pos + 1] = "err" /\ err_buf = PipeCapacity

\* C10: run_tts_command returns for every child that writes finitely often and exits
\* when its output is consumed: the invoker has returned or a step is still possible
C10_InvokerAlwaysReturns == inv_pc = "returned" \/ ENABLED NextPipe

====
